---------------------------- MODULE Spec2Model ----------------------------
(***************************************************************************)
(* Model of pynspect/filters.py: the IDEA filter compiler                  *)
(* (IDEAFilterCompiler and its value coercion helpers) and the record      *)
(* evaluator (DataObjectFilter).                                           *)
(*                                                                         *)
(* Rule nodes are records [kind, value] / [kind, operation, left, right].  *)
(* Literal values are tagged records:                                      *)
(*   [ty |-> "str", s]                  a Python str (opaque text)         *)
(*   [ty |-> "ts", year, .., zone]      a str in RFC3339 shape, held as    *)
(*                                      the digit groups TIMESTAMP_RE      *)
(*                                      would capture                      *)
(*   [ty |-> "int", n]                  a Python int                       *)
(*   [ty |-> "float", num, den]         a Python float (exact rational)    *)
(*   [ty |-> "range", fam, lo, hi]      an ipranges.Range                  *)
(*   [ty |-> "datetime", secs, us]      a naive datetime.datetime, held as *)
(*                                      its wall-clock distance from       *)
(*                                      1970-01-01T00:00:00                *)
(* A raised exception is the value Err.                                    *)
(***************************************************************************)
EXTENDS Integers, Sequences, FiniteSets, TLC

VARIABLES
    pc,       \* position of the modelled caller
    tz,       \* host's local UTC offset in minutes (read by fromtimestamp)
    rule0,    \* the rule tree as handed to compile (snapshot)
    rule,     \* the same objects after the calls made so far
    out1,     \* compile(rule)
    out2,     \* compile(compile(rule))
    lit,      \* compile_datetime driver: the timestamp literal
    dtS,      \* compile_datetime(string rendering)
    dtN,      \* compile_datetime(epoch-seconds rendering)
    record,   \* filter driver: the data object
    record0,  \* filter driver: the data object as handed to filter
    frule,    \* filter driver: the rule
    fres      \* filter(frule, record)

vars == <<pc, tz, rule0, rule, out1, out2, lit, dtS, dtN, record, record0, frule, fres>>

\* ------------------------------------------------------------------ bounds

MaxListLen == 2
MaxIndex == 1
MaxInt == 2

\* ------------------------------------------------------------------ values

Err == [kind |-> "Error"]
NoValue == [ty |-> "none"]

StrV(s) == [ty |-> "str", s |-> s]
IntV(n) == [ty |-> "int", n |-> n]

RECURSIVE Gcd(_, _)
Gcd(a, b) == IF b = 0 THEN a ELSE Gcd(b, a % b)

Abs(n) == IF n < 0 THEN -n ELSE n

\* a float, kept exact: num/den in lowest terms, den > 0
FloatV(num, den) ==
    LET g == Gcd(Abs(num), den)
    IN  [ty |-> "float", num |-> num \div g, den |-> den \div g]

IsNum(v) == v.ty \in {"int", "float"}
NumOf(v) == IF v.ty = "int" THEN v.n ELSE v.num
DenOf(v) == IF v.ty = "int" THEN 1 ELSE v.den

\* the decimal strings float() and int() accept, with the number they denote
NumericStrings == [s \in {"15", "0"} |-> IF s = "15" THEN 15 ELSE 0]

\* Python int(x): identity on int, truncation toward zero on float, parse
\* of a decimal string; anything else raises
py_int(v) ==
    CASE v.ty = "int" -> v
      [] v.ty = "float" ->
            IF v.num >= 0 THEN IntV(v.num \div v.den)
            ELSE IntV(-((-v.num) \div v.den))
      [] v.ty = "str" /\ v.s \in DOMAIN NumericStrings -> IntV(NumericStrings[v.s])
      [] OTHER -> Err

\* Python float(x): raises TypeError / ValueError on non-numeric input
py_float(v) ==
    CASE v.ty = "int" -> FloatV(v.n, 1)
      [] v.ty = "float" -> v
      [] v.ty = "str" /\ v.s \in DOMAIN NumericStrings -> FloatV(NumericStrings[v.s], 1)
      [] OTHER -> Err

\* ------------------------------------------------------------------ ipranges

RangeV(fam, lo, hi) == [ty |-> "range", fam |-> fam, lo |-> lo, hi |-> hi]

IP4Strings == {"192.0.2.0/24", "192.0.2.1"}
IP6Strings == {"2001:db8::/32"}

\* ipranges.from_str_v4: the IPv4 address, network or range a string denotes
from_str_v4(v) ==
    IF v.ty = "str" /\ v.s \in IP4Strings
    THEN IF v.s = "192.0.2.0/24"
         THEN RangeV(4, <<192, 0, 2, 0>>, <<192, 0, 2, 255>>)
         ELSE RangeV(4, <<192, 0, 2, 1>>, <<192, 0, 2, 1>>)
    ELSE Err

\* ipranges.from_str_v6
from_str_v6(v) ==
    IF v.ty = "str" /\ v.s \in IP6Strings
    THEN RangeV(6, <<8193, 3512, 0, 0, 0, 0, 0, 0>>,
                   <<8193, 3512, 65535, 65535, 65535, 65535, 65535, 65535>>)
    ELSE Err

\* ------------------------------------------------------------------ rule nodes

IPV4Rule(v) == [kind |-> "IPV4", value |-> v]
IPV6Rule(v) == [kind |-> "IPV6", value |-> v]
DatetimeRule(v) == [kind |-> "Datetime", value |-> v]
IntegerRule(v) == [kind |-> "Integer", value |-> v]
FloatRule(v) == [kind |-> "Float", value |-> v]
ConstantRule(v) == [kind |-> "Constant", value |-> v]
VariableRule(p) == [kind |-> "Variable", value |-> p]
ListRule(items) == [kind |-> "List", value |-> items]
IPListRule(items) == [kind |-> "IPList", value |-> items]
LogicalBinOpRule(op, l, r) ==
    [kind |-> "LogicalBinOp", operation |-> op, left |-> l, right |-> r]
ComparisonBinOpRule(op, l, r) ==
    [kind |-> "ComparisonBinOp", operation |-> op, left |-> l, right |-> r]
MathBinOpRule(op, l, r) ==
    [kind |-> "MathBinOp", operation |-> op, left |-> l, right |-> r]
UnaryOperationRule(op, r) ==
    [kind |-> "UnaryOperation", operation |-> op, right |-> r]

\* isinstance(x, ListRule): IPListRule is a subclass
IsListRule(x) == x.kind \in {"List", "IPList"}
\* isinstance(x, NumberRule): IntegerRule and FloatRule are subclasses
IsNumberRule(x) == x.kind \in {"Integer", "Float"}
IsVariableRule(x) == x.kind = "Variable"


\* ------------------------------------------------------------------ datetime

DatetimeV(secs, us) == [ty |-> "datetime", secs |-> secs, us |-> us]

RECURSIVE IntOfDigits(_)
\* int() of a string of decimal digits
IntOfDigits(ds) ==
    IF Len(ds) = 0 THEN 0
    ELSE 10 * IntOfDigits(SubSeq(ds, 1, Len(ds) - 1)) + ds[Len(ds)]

IsLeap(y) == (y % 4 = 0 /\ y % 100 # 0) \/ y % 400 = 0

DaysInMonth(y, m) ==
    CASE m \in {4, 6, 9, 11} -> 30
      [] m = 2 -> IF IsLeap(y) THEN 29 ELSE 28
      [] OTHER -> 31

\* days from 1970-01-01 to the proleptic Gregorian date y-m-d
DaysFromCivil(y, m, d) ==
    LET yy == IF m <= 2 THEN y - 1 ELSE y
        era == yy \div 400
        yoe == yy - era * 400
        mp == IF m > 2 THEN m - 3 ELSE m + 9
        doy == (153 * mp + 2) \div 5 + d - 1
        doe == yoe * 365 + yoe \div 4 - yoe \div 100 + doy
    IN  era * 146097 + doe - 719468

\* datetime.datetime(year, month, day, hour, minute, second, us): ValueError
\* on a field out of range
py_datetime(y, mo, d, h, mi, s, us) ==
    IF /\ y >= 1 /\ mo \in 1..12 /\ d >= 1 /\ d <= DaysInMonth(y, mo)
       /\ h \in 0..23 /\ mi \in 0..59 /\ s \in 0..59
    THEN DatetimeV(DaysFromCivil(y, mo, d) * 86400 + h * 3600 + mi * 60 + s, us)
    ELSE Err

\* datetime.datetime.fromtimestamp(x): the host's local wall clock at x
\* seconds after the epoch
fromtimestamp(f) ==
    DatetimeV(f.num \div f.den + tz * 60, ((f.num % f.den) * 1000000) \div f.den)

\* (res.group(7) or "0")[:6].ljust(6, "0")
us_str(frac) ==
    LET g == IF Len(frac) = 0 THEN <<0>> ELSE frac
        cut == IF Len(g) > 6 THEN SubSeq(g, 1, 6) ELSE g
    IN  cut \o [i \in 1..(6 - Len(cut)) |-> 0]

\* (0, 0) for "Z"/"z", else int(i) for the two pieces of zonestr.split(":"):
\* the sign is a character of the first piece only
zonespl(zone) ==
    IF zone.z THEN <<0, 0>>
    ELSE <<(IF zone.sign = "-" THEN -1 ELSE 1) * IntOfDigits(zone.hh),
           IntOfDigits(zone.mm)>>

\* TIMESTAMP_RE.match(str(value)): the value's groups, or no match
TIMESTAMP_RE_match(v) == IF v.ty = "ts" THEN v ELSE NoValue

\* rule classes with a value attribute (operation rules have none)
HasValue(r) ==
    r.kind \in {"IPV4", "IPV6", "Datetime", "Integer", "Float", "Constant"}

\* compile_datetime without its test for a value that is a datetime already
compile_datetime_reparse(r) ==
    IF ~HasValue(r) THEN Err
    ELSE LET f == py_float(r.value)
         IN  IF f # Err THEN DatetimeRule(fromtimestamp(f))
             ELSE LET res == TIMESTAMP_RE_match(r.value)
                  IN  IF res # NoValue
                      THEN LET zs == zonespl(res.zone)
                               dt == py_datetime(IntOfDigits(res.year),
                                                 IntOfDigits(res.month),
                                                 IntOfDigits(res.day),
                                                 IntOfDigits(res.hour),
                                                 IntOfDigits(res.minute),
                                                 IntOfDigits(res.second),
                                                 IntOfDigits(us_str(res.frac)))
                           IN  IF dt = Err THEN Err
                               ELSE DatetimeRule(DatetimeV(dt.secs - (zs[1] * 60 + zs[2]) * 60,
                                                           dt.us))
                      ELSE Err

compile_datetime(r) ==
    IF ~HasValue(r) THEN Err
    ELSE IF r.value.ty = "datetime" THEN r
    ELSE LET f == py_float(r.value)
         IN  IF f # Err THEN DatetimeRule(fromtimestamp(f))
             ELSE LET res == TIMESTAMP_RE_match(r.value)
                  IN  IF res # NoValue
                      THEN LET us == IntOfDigits(us_str(res.frac))
                               zs == zonespl(res.zone)
                               zonediff == zs[1] * 60 + zs[2]
                               dt == py_datetime(IntOfDigits(res.year),
                                                 IntOfDigits(res.month),
                                                 IntOfDigits(res.day),
                                                 IntOfDigits(res.hour),
                                                 IntOfDigits(res.minute),
                                                 IntOfDigits(res.second), us)
                           IN  IF dt = Err THEN Err
                               ELSE DatetimeRule(DatetimeV(dt.secs - zonediff * 60, dt.us))
                      ELSE Err

\* ------------------------------------------------------------------ IP helpers

\* compile_ip_v4 keeping the literal it cannot parse
compile_ip_v4_lenient(r) ==
    IF ~HasValue(r) THEN Err
    ELSE IF r.value.ty = "range" THEN r
    ELSE LET p == from_str_v4(r.value)
         IN  IF p = Err THEN r ELSE IPV4Rule(p)

compile_ip_v4(r) ==
    IF ~HasValue(r) THEN Err
    ELSE IF r.value.ty = "range" THEN r
    ELSE LET p == from_str_v4(r.value)
         IN  IF p = Err THEN Err ELSE IPV4Rule(p)

compile_ip_v6(r) ==
    IF ~HasValue(r) THEN Err
    ELSE IF r.value.ty = "range" THEN r
    ELSE LET p == from_str_v6(r.value)
         IN  IF p = Err THEN Err ELSE IPV6Rule(p)

\* ------------------------------------------------------------------ paths

\* A path is a sequence of tokens: [t |-> "txt", s] is text free of bracket
\* groups, [t |-> "br", c] is "[" c "]" with c a sequence of characters.
Digits == {"0", "1", "2", "3", "4", "5", "6", "7", "8", "9"}

Txt(s) == [t |-> "txt", s |-> s]
Br(c) == [t |-> "br", c |-> c]

\* whether CVRE = \[\d+\] matches the token
CVRE_match(tok) ==
    tok.t = "br" /\ Len(tok.c) >= 1 /\ \A i \in 1..Len(tok.c) : tok.c[i] \in Digits

RECURSIVE Concat(_)
Concat(ss) == IF Len(ss) = 0 THEN "" ELSE Head(ss) \o Concat(Tail(ss))

TokText(tok) == IF tok.t = "txt" THEN tok.s ELSE "[" \o Concat(tok.c) \o "]"

RECURSIVE PathText(_)
PathText(p) == IF Len(p) = 0 THEN "" ELSE TokText(Head(p)) \o PathText(Tail(p))

\* CVRE.sub('', var)
clean_variable(var) ==
    PathText(SelectSeq(var, LAMBDA tok : ~CVRE_match(tok)))


\* ------------------------------------------------------------------ coercion table

TimePaths == {"CreateTime", "DetectTime", "EventTime", "CeaseTime",
              "WinStartTime", "WinEndTime"}
IP4Paths == {"Source.IP4", "Target.IP4"}
IP6Paths == {"Source.IP6", "Target.IP6"}

COMPILATIONS_IDEA_OBJECT ==
    [p \in TimePaths \cup IP4Paths \cup IP6Paths |->
        CASE p \in TimePaths -> [comp_i |-> "compile_datetime", comp_l |-> "ListRule"]
          [] p \in IP4Paths -> [comp_i |-> "compile_ip_v4", comp_l |-> "IPListRule"]
          [] OTHER -> [comp_i |-> "compile_ip_v6", comp_l |-> "IPListRule"]]

\* compilation['comp_i'](r)
comp_i(compilation, r) ==
    CASE compilation.comp_i = "compile_datetime" -> compile_datetime(r)
      [] compilation.comp_i = "compile_ip_v4" -> compile_ip_v4(r)
      [] OTHER -> compile_ip_v6(r)

\* compilation['comp_l'](result)
comp_l(compilation, result) ==
    IF compilation.comp_l = "IPListRule" THEN IPListRule(result) ELSE ListRule(result)

\* the coercion of a comparison's value operand: item by item for a list,
\* the first failing item raising
CoerceValue(compilation, val) ==
    IF IsListRule(val)
    THEN LET result == [i \in 1..Len(val.value) |-> comp_i(compilation, val.value[i])]
         IN  IF \E i \in 1..Len(result) : result[i] = Err THEN Err
             ELSE comp_l(compilation, result)
    ELSE comp_i(compilation, val)

\* ------------------------------------------------------------------ arithmetic

ListV(items) == [ty |-> "list", items |-> items]
Listify(v) == IF v.ty = "list" THEN v.items ELSE <<v>>

MathOps == {"OP_PLUS", "OP_MINUS", "OP_TIMES"}

\* one arithmetic operation on two numbers: int if both are int, else float
Calc(op, a, b) ==
    LET n == CASE op = "OP_PLUS" -> NumOf(a) * DenOf(b) + NumOf(b) * DenOf(a)
               [] op = "OP_MINUS" -> NumOf(a) * DenOf(b) - NumOf(b) * DenOf(a)
               [] OTHER -> NumOf(a) * NumOf(b)
        d == DenOf(a) * DenOf(b)
    IN  IF a.ty = "int" /\ b.ty = "int" THEN IntV(n) ELSE FloatV(n, d)

\* the arithmetic capability: element-wise over sequences, a scalar when
\* the result has one element
evaluate_binop_math(op, left, right) ==
    LET l == Listify(left)
        r == Listify(right)
        ok == /\ Len(l) > 0 /\ Len(r) > 0
              /\ \A i \in 1..Len(l) : IsNum(l[i])
              /\ \A i \in 1..Len(r) : IsNum(r[i])
              /\ (Len(l) = Len(r) \/ Len(l) = 1 \/ Len(r) = 1)
        n == IF Len(l) > Len(r) THEN Len(l) ELSE Len(r)
        vect == [i \in 1..n |->
                    Calc(op, l[IF Len(l) = 1 THEN 1 ELSE i],
                             r[IF Len(r) = 1 THEN 1 ELSE i])]
    IN  IF ~ok THEN NoValue
        ELSE IF Len(vect) > 1 THEN ListV(vect) ELSE vect[1]

\* ------------------------------------------------------------------ IDEAFilterCompiler

IDEAFilterCompiler_ipv4(r) == compile_ip_v4(r)

IDEAFilterCompiler_ipv6(r) == compile_ip_v4(r)

IDEAFilterCompiler_datetime(r) == compile_datetime(r)

\* rule.value = int(rule.value); return rule -- the node returned is the
\* node passed in, holding the converted value
IDEAFilterCompiler_integer(r) ==
    LET v == py_int(r.value)
    IN  IF v = Err THEN Err ELSE [r EXCEPT !.value = v]

IDEAFilterCompiler_constant(r) == r

IDEAFilterCompiler_float(r) == r

IDEAFilterCompiler_variable(r) == r

IDEAFilterCompiler_list(r) == r

IDEAFilterCompiler_binary_operation_logical(r, left, right) ==
    LogicalBinOpRule(r.operation, left, right)

IDEAFilterCompiler_binary_operation_comparison(r, left, right) ==
    LET leftIsVar == IsVariableRule(left) /\ ~IsVariableRule(right)
        rightIsVar == IsVariableRule(right) /\ ~IsVariableRule(left)
        var == IF leftIsVar THEN left ELSE right
        val == IF leftIsVar THEN right ELSE left
        path == clean_variable(var.value)
    IN  IF (leftIsVar \/ rightIsVar) /\ path \in DOMAIN COMPILATIONS_IDEA_OBJECT
        THEN LET newright == CoerceValue(COMPILATIONS_IDEA_OBJECT[path], val)
             IN  IF newright = Err THEN Err
                 ELSE ComparisonBinOpRule(r.operation, left, newright)
        ELSE ComparisonBinOpRule(r.operation, left, right)

\* binary_operation_math folding into the wrong literal class
binary_operation_math_as_float(r, left, right) ==
    IF IsNumberRule(left) /\ IsNumberRule(right)
    THEN FloatRule(evaluate_binop_math(r.operation, left.value, right.value))
    ELSE MathBinOpRule(r.operation, left, right)

IDEAFilterCompiler_binary_operation_math(r, left, right) ==
    IF left.kind = "Integer" /\ right.kind = "Integer"
    THEN LET result == evaluate_binop_math(r.operation, left.value, right.value)
         IN  IF result.ty = "list"
             THEN ListRule([i \in 1..Len(result.items) |-> IntegerRule(result.items[i])])
             ELSE IntegerRule(result)
    ELSE IF IsNumberRule(left) /\ IsNumberRule(right)
    THEN LET result == evaluate_binop_math(r.operation, left.value, right.value)
         IN  IF result.ty = "list"
             THEN ListRule([i \in 1..Len(result.items) |-> FloatRule(result.items[i])])
             ELSE FloatRule(result)
    ELSE MathBinOpRule(r.operation, left, right)

IDEAFilterCompiler_unary_operation(r, right) ==
    UnaryOperationRule(r.operation, right)

\* ------------------------------------------------------------------ traversal

\* rule.traverse(compiler): bottom-up, left to right.  The result pairs what
\* the call returns (res, Err when it raised) with the input objects as the
\* call leaves them (inp).
RECURSIVE Traverse(_)
RECURSIVE TraverseItems(_)

\* the items of a list, in order, stopping at the first that raises
TraverseItems(items) ==
    IF Len(items) = 0 THEN [ok |-> TRUE, inp |-> <<>>]
    ELSE LET h == Traverse(Head(items))
         IN  IF h.res = Err
             THEN [ok |-> FALSE, inp |-> <<h.inp>> \o Tail(items)]
             ELSE LET t == TraverseItems(Tail(items))
                  IN  [ok |-> t.ok, inp |-> <<h.inp>> \o t.inp]

Traverse(r) ==
    CASE r.kind = "IPV4" -> [res |-> IDEAFilterCompiler_ipv4(r), inp |-> r]
      [] r.kind = "IPV6" -> [res |-> IDEAFilterCompiler_ipv6(r), inp |-> r]
      [] r.kind = "Datetime" -> [res |-> IDEAFilterCompiler_datetime(r), inp |-> r]
      [] r.kind = "Integer" ->
            LET c == IDEAFilterCompiler_integer(r)
            IN  [res |-> c, inp |-> IF c = Err THEN r ELSE c]
      [] r.kind = "Float" -> [res |-> IDEAFilterCompiler_float(r), inp |-> r]
      [] r.kind = "Constant" -> [res |-> IDEAFilterCompiler_constant(r), inp |-> r]
      [] r.kind = "Variable" -> [res |-> IDEAFilterCompiler_variable(r), inp |-> r]
      [] r.kind \in {"List", "IPList"} ->
            LET t == TraverseItems(r.value)
                after == [r EXCEPT !.value = t.inp]
            IN  [res |-> IF t.ok THEN IDEAFilterCompiler_list(after) ELSE Err,
                 inp |-> after]
      [] r.kind = "UnaryOperation" ->
            LET t == Traverse(r.right)
            IN  [res |-> IF t.res = Err THEN Err
                         ELSE IDEAFilterCompiler_unary_operation(r, t.res),
                 inp |-> [r EXCEPT !.right = t.inp]]
      [] OTHER ->
            LET l == Traverse(r.left)
            IN  IF l.res = Err THEN [res |-> Err, inp |-> [r EXCEPT !.left = l.inp]]
                ELSE LET rt == Traverse(r.right)
                         after == [r EXCEPT !.left = l.inp, !.right = rt.inp]
                     IN  [res |-> IF rt.res = Err THEN Err
                                  ELSE CASE r.kind = "LogicalBinOp" ->
                                              IDEAFilterCompiler_binary_operation_logical(r, l.res, rt.res)
                                         [] r.kind = "ComparisonBinOp" ->
                                              IDEAFilterCompiler_binary_operation_comparison(r, l.res, rt.res)
                                         [] OTHER ->
                                              IDEAFilterCompiler_binary_operation_math(r, l.res, rt.res),
                          inp |-> after]

\* IDEAFilterCompiler.compile
compile(r) == Traverse(r)


\* ------------------------------------------------------------------ inputs

Unset == [kind |-> "Unset"]

DigitChar == <<"0", "1", "2", "3", "4", "5", "6", "7", "8", "9">>

\* index segments a path may carry at one place: none, [d], or [12]
IndexSeqs ==
    {<<>>, <<Br(<<"1", "2">>)>>} \cup {<<Br(<<DigitChar[d + 1]>>)>> : d \in 0..MaxIndex}

\* a "[x]" and a "[]" segment: bracketed, not numeric
OddSeqs == {<<Br(<<"x">>)>>, <<Br(<<>>)>>}

\* RFC3339 strings, as their groups
TsV(y, mo, d, h, mi, s, frac, zone) ==
    [ty |-> "ts", year |-> y, month |-> mo, day |-> d, hour |-> h,
     minute |-> mi, second |-> s, frac |-> frac, zone |-> zone]
ZoneZ == [z |-> TRUE]
ZoneOff(sign, hh, mm) == [z |-> FALSE, sign |-> sign, hh |-> hh, mm |-> mm]

\* "2023-05-01T10:00:00+02:00" and "2023-05-01T10:00:00-05:30"
TsPlus == TsV(<<2, 0, 2, 3>>, <<0, 5>>, <<0, 1>>, <<1, 0>>, <<0, 0>>, <<0, 0>>, <<>>,
              ZoneOff("+", <<0, 2>>, <<0, 0>>))
TsMinus == TsV(<<2, 0, 2, 3>>, <<0, 5>>, <<0, 1>>, <<1, 0>>, <<0, 0>>, <<0, 0>>, <<>>,
               ZoneOff("-", <<0, 5>>, <<3, 0>>))

Range4 == RangeV(4, <<192, 0, 2, 0>>, <<192, 0, 2, 255>>)
Range6 == RangeV(6, <<8193, 3512, 0, 0, 0, 0, 0, 0>>,
                    <<8193, 3512, 65535, 65535, 65535, 65535, 65535, 65535>>)

VarPaths ==
    {<<Txt("Source")>> \o i1 \o <<Txt(".IP4")>> \o i2 : i1 \in IndexSeqs, i2 \in IndexSeqs}
    \cup {<<Txt("Source"), Txt(".IP4")>> \o o : o \in OddSeqs}
    \cup {<<Txt("Target"), Txt(".IP6")>> \o i : i \in IndexSeqs}
    \cup {<<Txt("DetectTime")>> \o i : i \in IndexSeqs}
    \cup {<<Txt("ConnCount")>>}

VarLeaves == {VariableRule(p) : p \in VarPaths}

IntegerLeaves ==
    {IntegerRule(IntV(n)) : n \in 0..MaxInt}
    \cup {IntegerRule(StrV("15")), IntegerRule(FloatV(7, 2))}

ValueLeaves ==
    {ConstantRule(StrV(s)) : s \in {"192.0.2.0/24", "2001:db8::/32", "not.an.ip", "15"}}
    \cup {ConstantRule(TsPlus), ConstantRule(TsMinus)}
    \cup {IPV4Rule(StrV("192.0.2.0/24")), IPV4Rule(StrV("not.an.ip")), IPV4Rule(Range4)}
    \cup {IPV6Rule(StrV("2001:db8::/32")), IPV6Rule(StrV("192.0.2.1")), IPV6Rule(Range6)}
    \cup {DatetimeRule(TsPlus), DatetimeRule(StrV("not.an.ip")),
          DatetimeRule(DatetimeV(1682928000, 0))}
    \cup IntegerLeaves
    \cup {FloatRule(FloatV(1, 2))}

ListItems ==
    {ConstantRule(StrV("192.0.2.0/24")), ConstantRule(StrV("2001:db8::/32")),
     ConstantRule(StrV("not.an.ip")), ConstantRule(TsPlus)}

Lists ==
    {ListRule(items) : items \in UNION {[1..n -> ListItems] : n \in 0..MaxListLen}}

MathRules ==
    {MathBinOpRule(op, a, b) :
        op \in MathOps,
        a \in IntegerLeaves \cup {FloatRule(FloatV(1, 2))},
        b \in IntegerLeaves \cup {FloatRule(FloatV(1, 2)), VariableRule(<<Txt("ConnCount")>>)}}

CmpOps == {"OP_EQ", "OP_GT"}

Operands == ValueLeaves \cup Lists \cup {m \in MathRules : m.operation = "OP_PLUS"}

CmpRules ==
    {ComparisonBinOpRule(op, var, val) : op \in CmpOps, var \in VarLeaves, val \in Operands}
    \cup {ComparisonBinOpRule(op, val, var) : op \in CmpOps, var \in VarLeaves, val \in Operands}
    \cup {ComparisonBinOpRule("OP_EQ", a, b) :
            a \in {VariableRule(<<Txt("Source"), Txt(".IP4")>>), ConstantRule(StrV("15"))},
            b \in {VariableRule(<<Txt("DetectTime")>>), ConstantRule(StrV("192.0.2.0/24"))}}

\* a few comparisons to put under logical and unary operators
SampleCmp ==
    {ComparisonBinOpRule("OP_EQ", VariableRule(<<Txt("Source"), Txt(".IP4")>>),
                         ConstantRule(StrV("192.0.2.0/24"))),
     ComparisonBinOpRule("OP_EQ", ConstantRule(TsPlus),
                         VariableRule(<<Txt("DetectTime"), Br(<<"0">>)>>)),
     ComparisonBinOpRule("OP_GT", VariableRule(<<Txt("ConnCount")>>),
                         MathBinOpRule("OP_PLUS", IntegerRule(StrV("15")), IntegerRule(IntV(1)))),
     ComparisonBinOpRule("OP_EQ", VariableRule(<<Txt("Target"), Txt(".IP6")>>),
                         ConstantRule(StrV("not.an.ip")))}

NestedRules ==
    {LogicalBinOpRule(op, a, b) : op \in {"OP_AND", "OP_OR"}, a \in SampleCmp, b \in SampleCmp}
    \cup {UnaryOperationRule("OP_NOT", a) : a \in SampleCmp}
    \cup {MathBinOpRule("OP_TIMES", m, IntegerRule(IntV(2))) :
            m \in {x \in MathRules : x.operation = "OP_MINUS"}}

Rules == ValueLeaves \cup VarLeaves \cup Lists \cup MathRules \cup CmpRules \cup NestedRules

\* host UTC offsets, in minutes
HostOffsets == {0, 60, -300}

\* ------------------------------------------------------------------ compile driver

InitCompile ==
    /\ pc = "start"
    /\ tz \in {0, 60}
    /\ rule0 \in Rules
    /\ rule = rule0
    /\ out1 = Unset /\ out2 = Unset
    /\ lit = Unset /\ dtS = Unset /\ dtN = Unset
    /\ record = Unset /\ record0 = Unset /\ frule = Unset /\ fres = Unset

\* out1 = compiler.compile(rule)
Compile ==
    /\ pc = "start"
    /\ LET t == compile(rule)
       IN  out1' = t.res /\ rule' = t.inp
    /\ pc' = "compiled"
    /\ UNCHANGED <<tz, rule0, out2, lit, dtS, dtN, record, record0, frule, fres>>

\* out2 = compiler.compile(out1), for an out1 that was returned
Recompile ==
    /\ pc = "compiled"
    /\ out1 # Err
    /\ out2' = compile(out1).res
    /\ pc' = "recompiled"
    /\ UNCHANGED <<tz, rule0, rule, out1, lit, dtS, dtN, record, record0, frule, fres>>

NextCompile == Compile \/ Recompile

SpecCompile == InitCompile /\ [][NextCompile]_vars


\* ------------------------------------------------------------------ compiler properties

Compiled == pc \in {"compiled", "recompiled"}

\* rule0 is a comparison whose compiled operands are one VariableRule and
\* one other node
OneVariable ==
    /\ rule0.kind = "ComparisonBinOp"
    /\ compile(rule0.left).res # Err
    /\ compile(rule0.right).res # Err
    /\ IsVariableRule(compile(rule0.left).res) # IsVariableRule(compile(rule0.right).res)

VarOnLeft == IsVariableRule(rule0.left)
VarOf == IF VarOnLeft THEN rule0.left ELSE rule0.right
\* the compiled value operand
ValOf == IF VarOnLeft THEN compile(rule0.right).res ELSE compile(rule0.left).res

InTable == clean_variable(VarOf.value) \in DOMAIN COMPILATIONS_IDEA_OBJECT
Entry == COMPILATIONS_IDEA_OBJECT[clean_variable(VarOf.value)]

\* C1: a comparison of one variable with a table path and one value, in
\* either orientation, compiles to the same comparison with the variable on
\* its side and the value's coercion on the value's side.
C1_Claim ==
    (Compiled /\ OneVariable /\ InTable /\ CoerceValue(Entry, ValOf) # Err)
        => out1 = IF VarOnLeft
                  THEN ComparisonBinOpRule(rule0.operation, VarOf, CoerceValue(Entry, ValOf))
                  ELSE ComparisonBinOpRule(rule0.operation, CoerceValue(Entry, ValOf), VarOf)

\* integer arithmetic, written out
PlainArith(op, a, b) ==
    CASE op = "OP_PLUS" -> a + b
      [] op = "OP_MINUS" -> a - b
      [] OTHER -> a * b

IntLiteral(r) == r.kind = "Integer" /\ r.value.ty = "int"

FoldCase ==
    /\ Compiled
    /\ rule0.kind = "MathBinOp"
    /\ IntLiteral(rule0.left) /\ IntLiteral(rule0.right)

\* C2: arithmetic on two integer literals compiles to the integer literal
\* of the result (to the list of integer literals of the results, when the
\* result is a sequence); no MathBinOp node is left.
C2_Fold ==
    FoldCase =>
        LET e == evaluate_binop_math(rule0.operation, rule0.left.value, rule0.right.value)
        IN  /\ out1.kind # "MathBinOp"
            /\ e.ty = "list" =>
                 out1 = ListRule([i \in 1..Len(e.items) |-> IntegerRule(e.items[i])])
            /\ e.ty # "list" =>
                 /\ out1 = IntegerRule(e)
                 /\ out1 = IntegerRule(IntV(PlainArith(rule0.operation,
                                                       rule0.left.value.n,
                                                       rule0.right.value.n)))

C2_Witness ==
    /\ FoldCase
    /\ rule0 = MathBinOpRule("OP_TIMES", IntegerRule(IntV(2)), IntegerRule(IntV(2)))
    /\ out1 = IntegerRule(IntV(4))

\* C3: compile leaves every node of its input as it was.
C3_Claim == (Compiled /\ out1 # Err) => rule = rule0

C6_Claim ==
    (Compiled /\ rule0.kind \in {"IPV4", "IPV6"}) =>
        IF rule0.value.ty = "range" THEN out1 = rule0
        ELSE LET p == IF rule0.kind = "IPV6" THEN from_str_v6(rule0.value)
                      ELSE from_str_v4(rule0.value)
             IN  out1 = IF p = Err THEN Err
                        ELSE [kind |-> rule0.kind, value |-> p]

\* a literal no coercion of the entry can read: a string that is no address
\* of the path's family (of either family, under an IP literal node, which
\* is parsed on its own first), or neither a number nor an RFC3339 string
Malformed(entry, item) ==
    /\ HasValue(item)
    /\ item.value.ty = "str"
    /\ CASE entry.comp_i = "compile_datetime" -> item.value.s \notin DOMAIN NumericStrings
         [] item.kind \in {"IPV4", "IPV6"} -> item.value.s \notin IP4Strings \cup IP6Strings
         [] entry.comp_i = "compile_ip_v4" -> item.value.s \notin IP4Strings
         [] OTHER -> item.value.s \notin IP6Strings

\* the value operand as written in rule0
RawValOf == IF VarOnLeft THEN rule0.right ELSE rule0.left

MalformedCase ==
    /\ Compiled
    /\ rule0.kind = "ComparisonBinOp"
    /\ IsVariableRule(rule0.left) # IsVariableRule(rule0.right)
    /\ InTable
    /\ IF IsListRule(RawValOf)
       THEN \E i \in 1..Len(RawValOf.value) : Malformed(Entry, RawValOf.value[i])
       ELSE Malformed(Entry, RawValOf)

Unindexed(p) == SelectSeq(p, LAMBDA tok : ~CVRE_match(tok))

Indexed(p) == \E i \in 1..Len(p) : CVRE_match(p[i])

\* C9: a comparison against an indexed path compiles as the comparison
\* against the unindexed path does, but for the variable node, which keeps
\* its indexed path.
C9_Claim ==
    (/\ Compiled
     /\ rule0.kind = "ComparisonBinOp"
     /\ IsVariableRule(rule0.left) # IsVariableRule(rule0.right)
     /\ Indexed(VarOf.value))
        => LET bare == VariableRule(Unindexed(VarOf.value))
               u == IF VarOnLeft THEN [rule0 EXCEPT !.left = bare]
                    ELSE [rule0 EXCEPT !.right = bare]
               cu == compile(u).res
           IN  out1 = IF cu = Err THEN Err
                      ELSE IF VarOnLeft THEN [cu EXCEPT !.left = VarOf]
                      ELSE [cu EXCEPT !.right = VarOf]


\* ------------------------------------------------------------------ compile_datetime driver

\* 2023-05-01, 2024-02-29, 2023-02-30 (no such day), 1970-01-02
Dates == {<< <<2, 0, 2, 3>>, <<0, 5>>, <<0, 1>> >>,
          << <<2, 0, 2, 4>>, <<0, 2>>, <<2, 9>> >>,
          << <<2, 0, 2, 3>>, <<0, 2>>, <<3, 0>> >>,
          << <<1, 9, 7, 0>>, <<0, 1>>, <<0, 2>> >>}
\* 10:00:00, 23:30:59, 00:00:00
Times == {<< <<1, 0>>, <<0, 0>>, <<0, 0>> >>,
          << <<2, 3>>, <<3, 0>>, <<5, 9>> >>,
          << <<0, 0>>, <<0, 0>>, <<0, 0>> >>}
Fracs == {<<>>, <<5>>, <<2, 5>>}
Zones == {ZoneZ,
          ZoneOff("+", <<0, 0>>, <<0, 0>>),
          ZoneOff("+", <<0, 2>>, <<0, 0>>),
          ZoneOff("-", <<0, 5>>, <<0, 0>>),
          ZoneOff("+", <<0, 5>>, <<3, 0>>),
          ZoneOff("-", <<0, 5>>, <<3, 0>>),
          ZoneOff("-", <<0, 0>>, <<3, 0>>)}

\* fractions of a second are drawn on the 1970 date only, which keeps the
\* numerator of the epoch rendering small
Timestamps ==
    {TsV(d[1], d[2], d[3], t[1], t[2], t[3], f, z) :
        d \in Dates, t \in Times, f \in {<<>>}, z \in Zones}
    \cup {TsV(<<1, 9, 7, 0>>, <<0, 1>>, <<0, 2>>, t[1], t[2], t[3], f, z) :
            t \in Times, f \in Fracs, z \in Zones}

\* the date and time fields name a day and a time of day
ValidFields(l) ==
    py_datetime(IntOfDigits(l.year), IntOfDigits(l.month), IntOfDigits(l.day),
                IntOfDigits(l.hour), IntOfDigits(l.minute), IntOfDigits(l.second), 0) # Err

\* RFC 3339: the offset of local time from UTC, in minutes
SignedOffset(zone) ==
    IF zone.z THEN 0
    ELSE (IF zone.sign = "-" THEN -1 ELSE 1)
            * (IntOfDigits(zone.hh) * 60 + IntOfDigits(zone.mm))

\* RFC 3339: the instant a timestamp denotes, as a UTC wall clock
InstantOf(l) ==
    LET local == py_datetime(IntOfDigits(l.year), IntOfDigits(l.month),
                             IntOfDigits(l.day), IntOfDigits(l.hour),
                             IntOfDigits(l.minute), IntOfDigits(l.second),
                             IntOfDigits(us_str(l.frac)))
    IN  DatetimeV(local.secs - SignedOffset(l.zone) * 60, local.us)

\* the instant as a number of seconds since 1970-01-01T00:00:00Z
EpochRendering(l) ==
    LET t == InstantOf(l)
        g == Gcd(t.us, 1000000)
    IN  IF t.us = 0 THEN IntV(t.secs)
        ELSE FloatV(t.secs * (1000000 \div g) + t.us \div g, 1000000 \div g)

InitDatetime ==
    /\ pc = "start"
    /\ tz \in HostOffsets
    /\ lit \in Timestamps
    /\ dtS = Unset /\ dtN = Unset
    /\ rule0 = Unset /\ rule = Unset /\ out1 = Unset /\ out2 = Unset
    /\ record = Unset /\ record0 = Unset /\ frule = Unset /\ fres = Unset

\* compile_datetime on the RFC3339 string
CoerceString ==
    /\ pc = "start"
    /\ dtS' = compile_datetime(ConstantRule(lit))
    /\ pc' = "string"
    /\ UNCHANGED <<tz, rule0, rule, out1, out2, lit, dtN, record, record0, frule, fres>>

\* compile_datetime on the epoch seconds of the same instant
CoerceNumeric ==
    /\ pc = "string"
    /\ ValidFields(lit)
    /\ dtN' = compile_datetime(ConstantRule(EpochRendering(lit)))
    /\ pc' = "both"
    /\ UNCHANGED <<tz, rule0, rule, out1, out2, lit, dtS, record, record0, frule, fres>>

NextDatetime == CoerceString \/ CoerceNumeric

SpecDatetime == InitDatetime /\ [][NextDatetime]_vars

\* C4: an RFC3339 timestamp with an offset coerces to its local date and
\* time minus the signed offset.
C4_Claim ==
    (pc \in {"string", "both"} /\ ValidFields(lit))
        => dtS = DatetimeRule(InstantOf(lit))

\* C7: the RFC3339 rendering and the epoch-seconds rendering of an instant
\* coerce to the same datetime, whatever the host's timezone.
C7_Claim == pc = "both" => dtN = dtS


\* ------------------------------------------------------------------ operator capability

BoolV(b) == [ty |-> "bool", b |-> b]

Truthy(v) ==
    CASE v.ty = "bool" -> v.b
      [] v.ty = "int" -> v.n # 0
      [] v.ty = "float" -> v.num # 0
      [] v.ty = "list" -> Len(v.items) > 0
      [] v.ty = "none" -> FALSE
      [] OTHER -> TRUE

FilterCmpOps == {"OP_GT", "OP_LT", "OP_EQ"}

\* the relation on two values; numbers by a * DenOf(b) against b * DenOf(a)
Holds(op, a, b) ==
    IF IsNum(a) /\ IsNum(b)
    THEN LET x == NumOf(a) * DenOf(b)
             y == NumOf(b) * DenOf(a)
         IN  CASE op = "OP_GT" -> x > y
               [] op = "OP_LT" -> x < y
               [] OTHER -> x = y
    ELSE ~IsNum(a) /\ ~IsNum(b) /\ a = b

\* whether the operator can combine the two values: numbers are ordered
\* among themselves, anything can be tested for equality
Combines(op, a, b) == op = "OP_EQ" \/ (IsNum(a) /\ IsNum(b))

\* the comparison capability: some value on the left stands in the relation
\* to some value on the right; no candidate on a side (or no value at all)
\* is no match; a pair it cannot combine raises
evaluate_binop_comparison(op, left, right) ==
    LET l == Listify(left)
        r == Listify(right)
    IN  IF left = NoValue \/ right = NoValue THEN BoolV(FALSE)
        ELSE IF \E i \in 1..Len(l), j \in 1..Len(r) : ~Combines(op, l[i], r[j]) THEN Err
        ELSE BoolV(\E i \in 1..Len(l), j \in 1..Len(r) : Holds(op, l[i], r[j]))

evaluate_binop_logical(op, left, right) ==
    CASE op = "OP_AND" -> BoolV(Truthy(left) /\ Truthy(right))
      [] op = "OP_OR" -> BoolV(Truthy(left) \/ Truthy(right))
      [] OTHER -> BoolV(Truthy(left) # Truthy(right))

evaluate_unop(op, right) == BoolV(~Truthy(right))

\* ------------------------------------------------------------------ path resolver

\* a data object maps each key it has to the values found there, in order
jpath_values(obj, path) ==
    IF PathText(path) \in DOMAIN obj THEN ListV(obj[PathText(path)]) ELSE ListV(<<>>)

\* ------------------------------------------------------------------ DataObjectFilter

DataObjectFilter_ipv4(r) == r.value

DataObjectFilter_ipv6(r) == r.value

DataObjectFilter_datetime(r) == r.value

DataObjectFilter_integer(r) == r.value

DataObjectFilter_constant(r) == r.value

\* variable collapsing the values found to the first of them
DataObjectFilter_variable_first(r, obj) ==
    LET vs == jpath_values(obj, r.value)
    IN  IF Len(vs.items) = 0 THEN vs ELSE vs.items[1]

DataObjectFilter_variable(r, obj) == jpath_values(obj, r.value)

\* rule.values(): [i.value for i in self.value]
DataObjectFilter_list(r) == ListV([i \in 1..Len(r.value) |-> r.value[i].value])

DataObjectFilter_binary_operation_logical(r, left, right) ==
    evaluate_binop_logical(r.operation, left, right)

DataObjectFilter_binary_operation_comparison(r, left, right) ==
    evaluate_binop_comparison(r.operation, left, right)

DataObjectFilter_binary_operation_math(r, left, right) ==
    evaluate_binop_math(r.operation, left, right)

DataObjectFilter_unary_operation(r, right) == evaluate_unop(r.operation, right)

\* rule.traverse(filter, obj = data); Err when an operator raised below
RECURSIVE Evaluate(_, _)
Evaluate(r, obj) ==
    CASE r.kind = "IPV4" -> DataObjectFilter_ipv4(r)
      [] r.kind = "IPV6" -> DataObjectFilter_ipv6(r)
      [] r.kind = "Datetime" -> DataObjectFilter_datetime(r)
      [] r.kind = "Integer" -> DataObjectFilter_integer(r)
      [] r.kind \in {"Constant", "Float"} -> DataObjectFilter_constant(r)
      [] r.kind = "Variable" -> DataObjectFilter_variable(r, obj)
      [] r.kind \in {"List", "IPList"} -> DataObjectFilter_list(r)
      [] r.kind = "UnaryOperation" ->
            LET x == Evaluate(r.right, obj)
            IN  IF x = Err THEN Err ELSE DataObjectFilter_unary_operation(r, x)
      [] OTHER ->
            LET l == Evaluate(r.left, obj)
                rt == Evaluate(r.right, obj)
            IN  IF l = Err \/ rt = Err THEN Err
                ELSE CASE r.kind = "LogicalBinOp" ->
                            DataObjectFilter_binary_operation_logical(r, l, rt)
                       [] r.kind = "ComparisonBinOp" ->
                            DataObjectFilter_binary_operation_comparison(r, l, rt)
                       [] OTHER ->
                            DataObjectFilter_binary_operation_math(r, l, rt)

\* DataObjectFilter.filter
filter(r, data) == Evaluate(r, data)

\* ------------------------------------------------------------------ filter driver

ConnCount == VariableRule(<<Txt("ConnCount")>>)

RecordValues == {IntV(n) : n \in 0..MaxInt} \cup {IntV(15)}

ValueSeqs == UNION {[1..n -> RecordValues] : n \in 0..MaxListLen}

\* data objects with and without a ConnCount
Records ==
    {[k \in {"Test"} |-> <<IntV(15)>>]}
    \cup {[k \in {"Test", "ConnCount"} |-> IF k = "Test" THEN <<IntV(15)>> ELSE vs] :
            vs \in ValueSeqs}

FilterCmp ==
    {ComparisonBinOpRule(op, ConnCount, IntegerRule(IntV(n))) :
        op \in FilterCmpOps, n \in 0..MaxInt}
    \cup {ComparisonBinOpRule(op, IntegerRule(IntV(n)), ConnCount) :
        op \in FilterCmpOps, n \in 0..MaxInt}

FilterRules ==
    FilterCmp
    \cup {ComparisonBinOpRule("OP_EQ", ConnCount, ListRule(<<IntegerRule(IntV(1)), IntegerRule(IntV(15))>>)),
          ComparisonBinOpRule("OP_GT", MathBinOpRule("OP_PLUS", ConnCount, IntegerRule(IntV(1))),
                              MathBinOpRule("OP_TIMES", IntegerRule(IntV(1)), IntegerRule(IntV(2)))),
          ComparisonBinOpRule("OP_EQ", ConnCount, ConstantRule(StrV("ABC"))),
          UnaryOperationRule("OP_NOT", ComparisonBinOpRule("OP_GT", ConnCount, IntegerRule(IntV(1)))),
          LogicalBinOpRule("OP_AND",
                           ComparisonBinOpRule("OP_GT", ConnCount, IntegerRule(IntV(1))),
                           ComparisonBinOpRule("OP_LT", VariableRule(<<Txt("Test")>>), IntegerRule(IntV(2)))),
          LogicalBinOpRule("OP_OR",
                           ComparisonBinOpRule("OP_GT", ConnCount, IntegerRule(IntV(1))),
                           ComparisonBinOpRule("OP_EQ", VariableRule(<<Txt("Test")>>), IntegerRule(IntV(15))))}

InitFilter ==
    /\ pc = "start"
    /\ tz = 0
    /\ frule \in FilterRules
    /\ record0 \in Records
    /\ record = record0
    /\ fres = Unset
    /\ rule0 = Unset /\ rule = Unset /\ out1 = Unset /\ out2 = Unset
    /\ lit = Unset /\ dtS = Unset /\ dtN = Unset

\* rule = cpl.compile(rule)
CompileRule ==
    /\ pc = "start"
    /\ compile(frule).res # Err
    /\ frule' = compile(frule).res
    /\ pc' = "ready"
    /\ UNCHANGED <<tz, rule0, rule, out1, out2, lit, dtS, dtN, record, record0, fres>>

\* result = flt.filter(rule, data)
Filter ==
    /\ pc \in {"start", "ready"}
    /\ fres' = filter(frule, record)
    /\ pc' = "filtered"
    /\ UNCHANGED <<tz, rule0, rule, out1, out2, lit, dtS, dtN, record, record0, frule>>

NextFilter == CompileRule \/ Filter

SpecFilter == InitFilter /\ [][NextFilter]_vars

\* the values the data object holds at ConnCount, none when it has none
ConnCountValues ==
    IF "ConnCount" \in DOMAIN record0 THEN record0["ConnCount"] ELSE <<>>

\* C10: a variable evaluates to all the values found at its path, none when
\* the path is absent, and the comparison operator gets them all: ConnCount
\* > 1 is true of a ConnCount of 15, false of one of 1, and the operator's
\* answer for no values, not an error, without a ConnCount; the data object
\* is left as it was.
C10_Filter ==
    pc = "filtered" =>
        /\ record = record0
        /\ (frule \in {ComparisonBinOpRule(op, ConnCount, IntegerRule(IntV(n))) :
                          op \in FilterCmpOps, n \in 0..MaxInt}) =>
              /\ fres # Err
              /\ fres = evaluate_binop_comparison(frule.operation, ListV(ConnCountValues),
                                                  frule.right.value)
              /\ fres = BoolV(\E i \in 1..Len(ConnCountValues) :
                                 CASE frule.operation = "OP_GT" ->
                                          ConnCountValues[i].n > frule.right.value.n
                                   [] frule.operation = "OP_LT" ->
                                          ConnCountValues[i].n < frule.right.value.n
                                   [] OTHER -> ConnCountValues[i].n = frule.right.value.n)
        /\ (frule = ComparisonBinOpRule("OP_GT", ConnCount, IntegerRule(IntV(1)))) =>
              /\ ConnCountValues = <<IntV(15)>> => fres = BoolV(TRUE)
              /\ ConnCountValues = <<IntV(1)>> => fres = BoolV(FALSE)
              /\ ConnCountValues = <<>> =>
                    fres = evaluate_binop_comparison("OP_GT", ListV(<<>>), IntV(1))

C10_Witness ==
    /\ pc = "filtered"
    /\ frule = ComparisonBinOpRule("OP_GT", ConnCount, IntegerRule(IntV(1)))
    /\ record0["Test"] = <<IntV(15)>>
    /\ ConnCountValues = <<IntV(0), IntV(15)>>
    /\ fres = BoolV(TRUE)

=============================================================================
